---- MODULE Spec2Model ----
(***************************************************************************)
(* Model of static/script.js: the browser-side controller of the daily     *)
(* checklist tracker.  The state is the part of the DOM the script reads   *)
(* and writes, the global currentTab, the requests in flight, the pending  *)
(* timers, and the today entry held by the REST backend.  Every action is  *)
(* one run-to-completion step of the event loop: an event handler, or the  *)
(* continuation of an async function after its awaited fetch.              *)
(***************************************************************************)
EXTENDS Integers, Sequences, FiniteSets, TLC
(* Time is counted in seconds.  A date is a record y, m, d, hour, dst: the   *)
(* local calendar fields of a JavaScript Date (m counts from 0), the hour of *)
(* the day, and dst, the hours by which the local UTC offset at that moment  *)
(* exceeds the offset at the start of January 1st of the same year.          *)

(* ------------------------------ bounds --------------------------------- *)
\* the user toggles the first MaxToggleIdx task checkboxes and the last one
MaxToggleIdx == 1
\* the day of the month of the current date; the date field offers 1..Today
Today == 2
\* form submits and clicks on "load history" in one run
MaxSubmits == 2
MaxHistClicks == 1
\* firings of the interval timer whose requests are in flight together
MaxTicks == 1
\* the years the current date is drawn from: FirstYear..FirstYear + MaxYears
FirstYear == 1999
MaxYears == 2
\* entries of a history response, reports of a report response
MaxRows == 2
MaxReports == 1

(* ------------------------- program constants --------------------------- *)
\* setTimeout(..., 3000) and setInterval(..., 30000), in seconds
ToastDelay == 3
TimerInterval == 30
\* weekAgo.getDate() - 7
WeekBack == 7
\* 24 * 60 * 60 * 1000 ms, in hours
DayLength == 24
\* Math.ceil(... / 7)
WeekLength == 7
\* Math.min(p, 100); toFixed(1): percentages are held in tenths
BarMax == 100
Tenths == 10

(* ----------------------------- constants ------------------------------- *)
Tabs == {"weekly", "monthly", "history"}
TaskOrder == <<"gym", "dsa", "ml", "django", "sql", "project_work", "aws">>
Tasks == {TaskOrder[i] : i \in 1..Len(TaskOrder)}
Reads == {"stats", "today", "weekly", "monthly", "history"}

UserTasks == {TaskOrder[i] : i \in 1..MaxToggleIdx} \cup {TaskOrder[Len(TaskOrder)]}

(* --------------------------- Date and String --------------------------- *)
IsLeap(y) == (y % 4 = 0 /\ y % 100 # 0) \/ y % 400 = 0

\* days of month m (0 = January) of year y
DaysInMonth(y, m) ==
    CASE m \in {3, 5, 8, 10} -> 30
      [] m = 1 -> IF IsLeap(y) THEN 29 ELSE 28
      [] OTHER -> 31

\* days of the Gregorian calendar before January 1st of year y
DaysBeforeYear(y) ==
    365 * (y - 1) + ((y - 1) \div 4) - ((y - 1) \div 100) + ((y - 1) \div 400)

RECURSIVE DaysBeforeMonth(_, _)
DaysBeforeMonth(y, m) ==
    IF m = 0 THEN 0 ELSE DaysBeforeMonth(y, m - 1) + DaysInMonth(y, m - 1)

\* the day number of a date in the Gregorian calendar
AbsDay(date) == DaysBeforeYear(date.y) + DaysBeforeMonth(date.y, date.m) + date.d

\* new Date(year, monthIndex, day): local midnight
NewDate(y, m, d) == [y |-> y, m |-> m, d |-> d, hour |-> 0, dst |-> 0]

\* date.getDay(): 0 = Sunday
getDay(date) == AbsDay(date) % 7

\* date.setDate(n): day n of the month of date, n < 1 and n past the end of
\* the month wrap into the neighbouring months
RECURSIVE setDate(_, _)
setDate(date, n) ==
    IF n < 1
    THEN IF date.m = 0
         THEN setDate([date EXCEPT !.y = @ - 1, !.m = 11], n + DaysInMonth(date.y - 1, 11))
         ELSE setDate([date EXCEPT !.m = @ - 1], n + DaysInMonth(date.y, date.m - 1))
    ELSE IF n > DaysInMonth(date.y, date.m)
         THEN IF date.m = 11
              THEN setDate([date EXCEPT !.y = @ + 1, !.m = 0], n - DaysInMonth(date.y, 11))
              ELSE setDate([date EXCEPT !.m = @ + 1], n - DaysInMonth(date.y, date.m))
         ELSE [date EXCEPT !.d = n]

\* a - b for two dates of one year, in hours
HoursBetween(a, b) ==
    (AbsDay(a) * DayLength + a.hour - a.dst) - (AbsDay(b) * DayLength + b.hour - b.dst)

\* String(s).padStart(n, c)
RECURSIVE padStart(_, _, _)
padStart(s, n, c) == IF Len(s) >= n THEN s ELSE padStart(c \o s, n, c)

\* x.toFixed(1) of a number held in tenths
toFixed1(x) ==
    (IF x < 0 THEN "-" ELSE "")
      \o ToString((IF x < 0 THEN -x ELSE x) \div Tenths) \o "."
      \o ToString((IF x < 0 THEN -x ELSE x) % Tenths)

Min(a, b) == IF a < b THEN a ELSE b

\* variant: the month index is not counted from 1
formatDateMonthIndex(date) ==
    ToString(date.y) \o "-" \o padStart(ToString(date.m), 2, "0")
      \o "-" \o padStart(ToString(date.d), 2, "0")

formatDate(date) ==
    ToString(date.y) \o "-" \o padStart(ToString(date.m + 1), 2, "0")
      \o "-" \o padStart(ToString(date.d), 2, "0")

MonthNames == <<"January", "February", "March", "April", "May", "June", "July",
                "August", "September", "October", "November", "December">>
DayNames == <<"Sunday", "Monday", "Tuesday", "Wednesday", "Thursday", "Friday",
              "Saturday">>

\* the current date of the runs that do not vary it
StartOfRun == [y |-> FirstYear + 1, m |-> 0, d |-> Today, hour |-> 12, dst |-> 0]

\* the current dates a page may be loaded at
Years == FirstYear..(FirstYear + MaxYears)
Nows ==
    {n \in [y : Years, m : 0..11, d : 1..31, hour : {0, 23}, dst : {-1, 0, 1}] :
        /\ n.d <= DaysInMonth(n.y, n.m)
        /\ (n.m = 0 /\ n.d = 1) => n.dst = 0}

\* the values the user can give the date inputs; "" is an emptied input
Dates == {formatDate([StartOfRun EXCEPT !.d = k]) : k \in 1..Today}
NoDate == ""

\* the detail texts the backend puts in an error body
Details == {"Entry already exists"}

VARIABLES
    currentTab,   \* let currentTab
    btnActive,    \* data-tab of every .tab-btn carrying class "active"
    panelActive,  \* id of every .tab-content carrying class "active"
    checked,      \* the task checkboxes that are checked
    dateVal,      \* #date value
    dateMax,      \* #date max
    toast,        \* #toast: class "show", message, icon, background
    hideTimers,   \* pending setTimeout callbacks of showToast: seconds left, oldest first
    region,       \* innerHTML of #stats, #todayStatus, #weeklyReports, ...
    reqs,         \* GET requests in flight
    posts,        \* POST requests in flight
    issued,       \* number of requests issued so far, per endpoint
    loaded,       \* DOMContentLoaded has run
    listeners,    \* setupEventListeners has run
    tickIn,       \* seconds until the setInterval callback fires next
    clicks,       \* clicks on #loadHistory so far
    now,          \* what new Date() returns
    startDate,    \* #startDate value
    endDate,      \* #endDate value
    dateInfo,     \* text of #current-date, #week-number, #month-name
    srvToday,     \* backend: the entry of the current date
    srvVer,       \* backend: number of writes to the entry of the current date
    lastEvent     \* history: the step that led to this state

vars == <<currentTab, btnActive, panelActive, checked, dateVal, dateMax, toast,
          hideTimers, region, reqs, posts, issued, loaded, listeners, tickIn,
          clicks, now, startDate, endDate, dateInfo, srvToday, srvVer, lastEvent>>

tabVars == <<currentTab, btnActive, panelActive>>
formVars == <<checked, dateVal, dateMax>>
toastVars == <<toast, hideTimers>>
srvVars == <<srvToday, srvVer>>
envVars == <<loaded, listeners, tickIn, clicks>>
rangeVars == <<startDate, endDate>>
pageVars == <<now, startDate, endDate, dateInfo>>

(* ----------------------------- messages -------------------------------- *)
NoResp == [status |-> "none", exists |-> FALSE, flags |-> {}, ver |-> 0,
           detail |-> "", body |-> "", items |-> <<>>]
\* a request in flight.  date, flags: the body of a POST; query: the query
\* parameters of the URL; resp: its response.
\* Bookkeeping for the properties: form is the set of boxes checked when the
\* form was submitted and cause the backend version that POST produced, both
\* copied to the reloads the submit starts.
NoMsg == [kind |-> "none", id |-> 0, origin |-> "", date |-> NoDate,
          flags |-> {}, query |-> <<>>, form |-> {}, cause |-> 0, resp |-> NoResp]

\* op: the step; tab, prev: the argument of switchTab and currentTab before it;
\* msg: the request whose response was handled; before, shown: the boxes
\* checked and the version the today region showed before the step
Event(op, tab, prev, msg) ==
    [op |-> op, tab |-> tab, prev |-> prev, msg |-> msg, before |-> {}, shown |-> 0]

Idle == Event("idle", "", "", NoMsg)

(* ------------------------------ Init ----------------------------------- *)
\* ver is bookkeeping: the backend version of the payload a region shows
InitRegion ==
    [k \in Reads |-> [html |-> "initial", flags |-> {}, items |-> <<>>, ver |-> 0]]
InitDateInfo == [date |-> "", week |-> 0, month |-> ""]
InitToast == [show |-> FALSE, msg |-> <<>>, icon |-> "", bg |-> ""]

\* what GET /api/today may answer before any write of this page
SrvInits == {[exists |-> FALSE, flags |-> {}],
             [exists |-> FALSE, flags |-> {"dsa"}],
             [exists |-> TRUE, flags |-> {"project_work", "aws"}]}

InitAt(date) ==
    /\ currentTab = "weekly"
    /\ btnActive = {"weekly"}
    /\ panelActive = {"weeklyTab"}
    /\ checked = {}
    /\ dateVal = NoDate
    /\ dateMax = NoDate
    /\ toast = InitToast
    /\ hideTimers = <<>>
    /\ region = InitRegion
    /\ reqs = {}
    /\ posts = {}
    /\ issued = [k \in Reads \cup {"post"} |-> 0]
    /\ loaded = FALSE
    /\ listeners = FALSE
    /\ tickIn = TimerInterval
    /\ clicks = 0
    /\ now = date
    /\ startDate = NoDate
    /\ endDate = NoDate
    /\ dateInfo = InitDateInfo
    /\ srvToday \in SrvInits
    /\ srvVer = 0
    /\ lastEvent = Idle

Init == InitAt(StartOfRun)

\* the page is loaded at any moment of the years considered
InitAnyDate == \E date \in Nows : InitAt(date)

(* --------------------------- pure helpers ------------------------------ *)
Count(calls, k) == Cardinality({j \in DOMAIN calls : calls[j] = k})

\* variant: one date is enough for the query to be added
HistoryQueryEither(start, end) ==
    IF start # "" \/ end # ""
    THEN <<[name |-> "start_date", value |-> start], [name |-> "end_date", value |-> end]>>
    ELSE <<>>

\* if (startDate && endDate) url += `?start_date=${startDate}&end_date=${endDate}`
HistoryQuery(start, end) ==
    IF start # "" /\ end # ""
    THEN <<[name |-> "start_date", value |-> start], [name |-> "end_date", value |-> end]>>
    ELSE <<>>

\* requests carry no number of their own: id tells the requests in flight
\* apart.  The requests of the timer reuse the ids of answered ones.
TimerIds(k) == {r.id : r \in {q \in reqs : q.origin = "timer" /\ q.kind = k}}
FreeTimerId(k) == CHOOSE n \in 1..(Cardinality(TimerIds(k)) + 1) : n \notin TimerIds(k)

\* the fetches started by calling the load functions named in calls, in order,
\* while the history inputs hold start and end
FetchesAt(calls, origin, post, start, end) ==
    {[kind |-> calls[i],
      id |-> IF origin = "timer"
             THEN FreeTimerId(calls[i])
             ELSE issued[calls[i]] + Count(SubSeq(calls, 1, i), calls[i]),
      origin |-> origin, date |-> post.date, flags |-> post.flags,
      query |-> IF calls[i] = "history" THEN HistoryQuery(start, end) ELSE <<>>,
      form |-> post.form, cause |-> post.resp.ver, resp |-> NoResp] : i \in DOMAIN calls}

Fetches(calls, origin, post) == FetchesAt(calls, origin, post, startDate, endDate)

IssueAt(calls, origin, post, start, end) ==
    /\ reqs' = reqs \cup FetchesAt(calls, origin, post, start, end)
    /\ issued' = IF origin = "timer"
                 THEN issued
                 ELSE [k \in DOMAIN issued |-> issued[k] + Count(calls, k)]

Issue(calls, origin, post) == IssueAt(calls, origin, post, startDate, endDate)

PanelId(tab) ==
    CASE tab = "weekly" -> "weeklyTab"
      [] tab = "monthly" -> "monthlyTab"
      [] tab = "history" -> "historyTab"

ToastIcon(type) ==
    CASE type = "success" -> "toast-icon fas fa-check-circle"
      [] type = "error" -> "toast-icon fas fa-exclamation-circle"
      [] OTHER -> "toast-icon fas fa-info-circle"

ToastBg(type) ==
    CASE type = "success" -> "#48bb78"
      [] type = "error" -> "#f56565"
      [] OTHER -> "#2d3748"

(* ------------------------------ toast ---------------------------------- *)
\* variant: a new notification cancels the pending hide and starts a new one
showToastRestart(message, type) ==
    /\ toast' = [show |-> TRUE, msg |-> message, icon |-> ToastIcon(type),
                 bg |-> ToastBg(type)]
    /\ hideTimers' = <<ToastDelay>>

showToast(message, type) ==
    /\ toast' = [show |-> TRUE, msg |-> message, icon |-> ToastIcon(type),
                 bg |-> ToastBg(type)]
    /\ hideTimers' = Append(hideTimers, ToastDelay)

\* the callback of setTimeout(..., 3000)
ToastHide ==
    /\ hideTimers # <<>>
    /\ Head(hideTimers) = 0
    /\ toast' = [toast EXCEPT !.show = FALSE]
    /\ hideTimers' = Tail(hideTimers)
    /\ lastEvent' = Event("hide", "", "", NoMsg)
    /\ UNCHANGED <<tabVars, formVars, region, reqs, posts, issued, envVars, pageVars,
                   srvVars>>

(* ------------------------------- time ---------------------------------- *)
\* the seconds until the next timer callback is due
NextDue == IF hideTimers = <<>> THEN tickIn ELSE Min(tickIn, Head(hideTimers))

\* d seconds pass without any timer callback being due before their end
Advance(d) ==
    /\ d >= 1
    /\ d <= NextDue
    /\ tickIn' = tickIn - d
    /\ hideTimers' = IF hideTimers = <<>>
                     THEN <<>>
                     ELSE [i \in 1..Len(hideTimers) |-> hideTimers[i] - d]
    /\ lastEvent' = Idle
    /\ UNCHANGED <<tabVars, formVars, toast, region, reqs, posts, issued, loaded,
                   listeners, clicks, pageVars, srvVars>>

(* ------------------------------- tabs ---------------------------------- *)
\* variant: "active" is added to the match and never removed from the others
switchTabKeep(tab) ==
    IF currentTab = tab
    THEN UNCHANGED tabVars
    ELSE /\ btnActive' = btnActive \cup {b \in Tabs : b = tab}
         /\ panelActive' = panelActive \cup {PanelId(tab)}
         /\ currentTab' = tab

\* variant: no early return, and the match is toggled instead of added
switchTabToggle(tab) ==
    /\ btnActive' = {b \in Tabs : b = tab /\ b \notin btnActive}
    /\ panelActive' = {PanelId(c) : c \in {b \in Tabs : b = tab /\ PanelId(b) \notin panelActive}}
    /\ currentTab' = tab

\* every .tab-btn and .tab-content loses "active"; the matching one gets it
switchTab(tab) ==
    IF currentTab = tab
    THEN UNCHANGED tabVars
    ELSE /\ btnActive' = {b \in Tabs : b = tab}
         /\ panelActive' = {PanelId(t) : t \in {c \in Tabs : PanelId(c) = PanelId(tab)}}
         /\ currentTab' = tab

TabClick(tab) ==
    /\ listeners
    /\ switchTab(tab)
    /\ lastEvent' = Event("switchTab", tab, currentTab, NoMsg)
    /\ UNCHANGED <<formVars, toastVars, region, reqs, posts, issued, envVars, pageVars,
                   srvVars>>

(* ------------------------------- form ---------------------------------- *)
clearForm == checked' = {}

UserToggle(t) ==
    /\ checked' = IF t \in checked THEN checked \ {t} ELSE checked \cup {t}
    /\ lastEvent' = Event("toggle", "", "", NoMsg)
    /\ UNCHANGED <<tabVars, dateVal, dateMax, toastVars, region, reqs, posts, issued,
                   envVars, pageVars, srvVars>>

UserSetDate(d) ==
    /\ d # dateVal
    /\ dateVal' = d
    /\ lastEvent' = Idle
    /\ UNCHANGED <<tabVars, checked, dateMax, toastVars, region, reqs, posts, issued,
                   envVars, pageVars, srvVars>>

\* variant: the newest task is missing from the body
FormDataNoAws == [date |-> dateVal, flags |-> {t \in Tasks \ {"aws"} : t \in checked}]

\* const formData = {date, gym, dsa, ..., aws}
FormData == [date |-> dateVal, flags |-> {t \in Tasks : t \in checked}]

\* the submit handler up to its await fetch(POST /api/daily/)
Submit ==
    /\ listeners
    /\ issued["post"] < MaxSubmits
    /\ posts' = posts \cup {[kind |-> "post", id |-> issued["post"] + 1,
                             origin |-> "user", date |-> FormData.date,
                             flags |-> FormData.flags, query |-> <<>>,
                             form |-> checked, cause |-> 0, resp |-> NoResp]}
    /\ issued' = [issued EXCEPT !["post"] = @ + 1]
    /\ lastEvent' = Idle
    /\ UNCHANGED <<tabVars, formVars, toastVars, region, reqs, envVars, pageVars,
                   srvVars>>

(* ------------------------------ backend -------------------------------- *)
\* POST /api/daily/: the entry is stored (2xx), refused, or the request is lost
PostOutcomes(p) ==
    {[NoResp EXCEPT !.status = "ok",
                    !.ver = IF p.date = formatDate(now) THEN srvVer + 1 ELSE srvVer]}
    \cup {[NoResp EXCEPT !.status = "http", !.detail = d, !.body = "json"] : d \in Details}
    \cup {[NoResp EXCEPT !.status = "http", !.body = "text"],
          [NoResp EXCEPT !.status = "fail"]}

PostServe(p, out) ==
    /\ p.resp.status = "none"
    /\ posts' = (posts \ {p}) \cup {[p EXCEPT !.resp = out]}
    /\ IF out.status = "ok" /\ p.date = formatDate(now)
       THEN /\ srvToday' = [exists |-> TRUE, flags |-> p.flags]
            /\ srvVer' = srvVer + 1
       ELSE UNCHANGED srvVars
    /\ lastEvent' = Idle
    /\ UNCHANGED <<tabVars, formVars, toastVars, region, reqs, issued, envVars,
                   pageVars>>

\* GET /api/today: the entry of the current date with its exists flag
TodayOutcomes ==
    {[NoResp EXCEPT !.status = "ok", !.exists = srvToday.exists,
                    !.flags = srvToday.flags, !.ver = srvVer, !.body = "json"],
     [NoResp EXCEPT !.status = "http"],
     [NoResp EXCEPT !.status = "fail"]}

TodayServe(r, out) ==
    /\ r.kind = "today"
    /\ r.resp.status = "none"
    /\ reqs' = (reqs \ {r}) \cup {[r EXCEPT !.resp = out]}
    /\ lastEvent' = Idle
    /\ UNCHANGED <<tabVars, formVars, toastVars, region, posts, issued, envVars,
                   pageVars, srvVars>>

\* the sequences over S of at most n elements
Lists(S, n) == {<<>>} \cup UNION {[1..k -> S] : k \in 1..n}

\* entries of GET /api/daily/: the date and the task flags that are true
FlagSamples == {{}, {"gym"}, {"dsa", "aws"}, {"aws", "sql", "ml"}, Tasks}
HistoryItems == {[date |-> formatDate(StartOfRun), flags |-> f] : f \in FlagSamples}

\* entries of GET /api/weekly/ and /api/monthly/: the seven percentages, in
\* tenths, and the figure of the header
Percents == {0, 333, 1000, 1500}
ReportItems ==
    {[pct |-> [t \in Tasks |-> IF t = "gym" THEN a ELSE IF t = "aws" THEN b ELSE 505],
      total |-> a, days |-> Today] : a \in Percents, b \in Percents}

OkBody(b, items) == [NoResp EXCEPT !.status = "ok", !.body = b, !.items = items]

\* the other GET endpoints: a body, an error status, or no usable response
ReadOutcomes(k) ==
    (CASE k = "stats" -> {OkBody("stats", <<>>)}
       [] k = "history" ->
            {OkBody("empty", <<>>),
             OkBody("items", <<[date |-> formatDate(StartOfRun), flags |-> {"gym"}]>>)}
       [] OTHER ->
            {OkBody("empty", <<>>),
             OkBody("items", <<[pct |-> [t \in Tasks |-> 1500], total |-> 1500,
                                days |-> Today]>>)})
    \cup {[NoResp EXCEPT !.status = "http"], [NoResp EXCEPT !.status = "fail"]}

\* the 2xx bodies of the list endpoints, up to the bounds
ListOutcomes(k) ==
    {OkBody(IF items = <<>> THEN "empty" ELSE "items", items) :
        items \in CASE k = "history" -> Lists(HistoryItems, MaxRows)
                     [] k \in {"weekly", "monthly"} -> Lists(ReportItems, MaxReports)
                     [] OTHER -> {}}

(* ------------------------- the load functions -------------------------- *)
Html(h) == [html |-> h, flags |-> {}, items |-> <<>>, ver |-> 0]

TaskLabels == <<"GYM", "DSA", "ML", "Django", "SQL", "Project", "AWS">>

\* variant: unshift instead of push
RECURSIVE completedTasksUnshift(_, _)
completedTasksUnshift(item, n) ==
    IF n = 0
    THEN <<>>
    ELSE IF TaskOrder[n] \in item.flags
         THEN <<TaskLabels[n]>> \o completedTasksUnshift(item, n - 1)
         ELSE completedTasksUnshift(item, n - 1)

\* completedTasks after the first n of the seven ifs
RECURSIVE completedTasks(_, _)
completedTasks(item, n) ==
    IF n = 0
    THEN <<>>
    ELSE IF TaskOrder[n] \in item.flags
         THEN Append(completedTasks(item, n - 1), TaskLabels[n])
         ELSE completedTasks(item, n - 1)

Badge(class, text) == [class |-> class, text |-> text]

tasksHtml(item) ==
    IF Len(completedTasks(item, Len(TaskOrder))) > 0
    THEN [i \in 1..Len(completedTasks(item, Len(TaskOrder))) |->
             Badge("task-badge completed", completedTasks(item, Len(TaskOrder))[i])]
    ELSE <<Badge("task-badge", "No tasks completed")>>

\* one .history-item per entry; the date is put in the en-US form
historyHtml(history) ==
    [i \in 1..Len(history) |->
        [class |-> "history-item", date |-> <<"en-US", history[i].date>>,
         tasks |-> tasksHtml(history[i])]]

\* variant: the width is the percentage itself
ProgressBarUnclamped(name, p) ==
    [label |-> name \o ": " \o toFixed1(p) \o "%", width |-> p]

\* <small>NAME: p.toFixed(1)%</small> and the .progress-fill of Math.min(p, 100)%
ProgressBar(name, p) ==
    [label |-> name \o ": " \o toFixed1(p) \o "%", width |-> Min(p, BarMax * Tenths)]

\* one .report-item per report: the figure of the header and the seven bars
reportsHtml(reports, score) ==
    [i \in 1..Len(reports) |->
        [class |-> "report-item", score |-> score[i],
         bars |-> [j \in 1..Len(TaskOrder) |->
                      ProgressBar(TaskLabels[j], reports[i].pct[TaskOrder[j]])]]]

weeklyScore(reports) == [i \in 1..Len(reports) |-> toFixed1(reports[i].total) \o "%"]
monthlyScore(reports) ==
    [i \in 1..Len(reports) |-> ToString(reports[i].days) \o " days"]

Rendered(h, items) == [html |-> h, flags |-> {}, items |-> items, ver |-> 0]

\* variant: a stats response resets the form
loadStatsClears(resp) ==
    /\ region' = IF resp.status = "ok"
                 THEN [region EXCEPT !["stats"] = Html("stat-items")]
                 ELSE IF resp.status = "fail"
                      THEN [region EXCEPT !["stats"] = Html("<p>Loading...</p>")]
                      ELSE region
    /\ clearForm
    /\ UNCHANGED toastVars

\* loadStats after its await fetch
loadStats(resp) ==
    /\ region' = IF resp.status = "ok"
                 THEN [region EXCEPT !["stats"] = Html("stat-items")]
                 ELSE IF resp.status = "fail"
                      THEN [region EXCEPT !["stats"] = Html("<p>Loading...</p>")]
                      ELSE region
    /\ UNCHANGED <<checked, toastVars>>

\* variant: the form is left alone while boxes are checked
loadTodayStatusGuarded(resp) ==
    IF resp.status = "ok"
    THEN /\ region' = [region EXCEPT !["today"] =
                          [html |-> "status-items",
                           flags |-> {t \in Tasks : t \in resp.flags}, items |-> <<>>,
                           ver |-> resp.ver]]
         /\ IF checked # {}
            THEN UNCHANGED checked
            ELSE IF resp.exists
                 THEN checked' = {t \in Tasks : t \in resp.flags}
                 ELSE clearForm
         /\ UNCHANGED toastVars
    ELSE UNCHANGED <<region, checked, toastVars>>

\* variant: the checkboxes are filled from the payload whatever exists says
loadTodayStatusNoExists(resp) ==
    IF resp.status = "ok"
    THEN /\ region' = [region EXCEPT !["today"] =
                          [html |-> "status-items",
                           flags |-> {t \in Tasks : t \in resp.flags}, items |-> <<>>,
                           ver |-> resp.ver]]
         /\ checked' = {t \in Tasks : t \in resp.flags}
         /\ UNCHANGED toastVars
    ELSE UNCHANGED <<region, checked, toastVars>>

\* loadTodayStatus after its await fetch
loadTodayStatus(resp) ==
    IF resp.status = "ok"
    THEN /\ region' = [region EXCEPT !["today"] =
                          [html |-> "status-items",
                           flags |-> {t \in Tasks : t \in resp.flags}, items |-> <<>>,
                           ver |-> resp.ver]]
         /\ IF resp.exists
            THEN checked' = {t \in Tasks : t \in resp.flags}
            ELSE clearForm
         /\ UNCHANGED toastVars
    ELSE UNCHANGED <<region, checked, toastVars>>

\* variant: a failed history request is reported in the toast as well
loadHistoryToast(resp) ==
    IF resp.status = "fail"
    THEN /\ region' = [region EXCEPT !["history"] = Html("<p>Error loading history</p>")]
         /\ showToast(<<"Error loading history">>, "error")
         /\ UNCHANGED checked
    ELSE /\ region' = IF resp.status = "ok"
                      THEN IF Len(resp.items) = 0
                           THEN [region EXCEPT !["history"] = Html("<p>No history found.</p>")]
                           ELSE [region EXCEPT !["history"] =
                                    Rendered("history-items", historyHtml(resp.items))]
                      ELSE region
         /\ UNCHANGED <<checked, toastVars>>

\* loadHistory after its await fetch
loadHistory(resp) ==
    /\ region' = IF resp.status = "ok"
                 THEN IF Len(resp.items) = 0
                      THEN [region EXCEPT !["history"] = Html("<p>No history found.</p>")]
                      ELSE [region EXCEPT !["history"] =
                               Rendered("history-items", historyHtml(resp.items))]
                 ELSE IF resp.status = "fail"
                      THEN [region EXCEPT !["history"] = Html("<p>Error loading history</p>")]
                      ELSE region
    /\ UNCHANGED <<checked, toastVars>>

\* loadWeeklyReports after its await fetch
loadWeeklyReports(resp) ==
    /\ region' = IF resp.status = "ok"
                 THEN IF Len(resp.items) = 0
                      THEN [region EXCEPT !["weekly"] = Html("<p>No weekly reports yet.</p>")]
                      ELSE [region EXCEPT !["weekly"] =
                               Rendered("report-items",
                                        reportsHtml(resp.items, weeklyScore(resp.items)))]
                 ELSE IF resp.status = "fail"
                      THEN [region EXCEPT !["weekly"] = Html("<p>Loading...</p>")]
                      ELSE region
    /\ UNCHANGED <<checked, toastVars>>

\* loadMonthlyReports after its await fetch
loadMonthlyReports(resp) ==
    /\ region' = IF resp.status = "ok"
                 THEN IF Len(resp.items) = 0
                      THEN [region EXCEPT !["monthly"] = Html("<p>No monthly reports yet.</p>")]
                      ELSE [region EXCEPT !["monthly"] =
                               Rendered("report-items",
                                        reportsHtml(resp.items, monthlyScore(resp.items)))]
                 ELSE IF resp.status = "fail"
                      THEN [region EXCEPT !["monthly"] = Html("<p>Loading...</p>")]
                      ELSE region
    /\ UNCHANGED <<checked, toastVars>>

\* a GET response reaches the page: the continuation of the load function runs
ReadResponse(r, out) ==
    /\ IF r.kind = "today"
       THEN r.resp.status # "none" /\ out = r.resp
       ELSE out \in ReadOutcomes(r.kind) \cup ListOutcomes(r.kind)
    /\ reqs' = reqs \ {r}
    /\ CASE r.kind = "stats" -> loadStats(out)
         [] r.kind = "today" -> loadTodayStatus(out)
         [] r.kind = "history" -> loadHistory(out)
         [] r.kind = "weekly" -> loadWeeklyReports(out)
         [] r.kind = "monthly" -> loadMonthlyReports(out)
    /\ lastEvent' = [Event("read", "", "", [r EXCEPT !.resp = out])
                         EXCEPT !.before = checked, !.shown = region["today"].ver]
    /\ UNCHANGED <<tabVars, dateVal, dateMax, posts, issued, envVars, pageVars, srvVars>>

(* ------------------------- the submit handler -------------------------- *)
\* variant: the history reload is left out
SubmitReloadsNoHistory == <<"today", "stats", "weekly", "monthly">>

\* the loads called when response.ok
SubmitReloads == <<"today", "stats", "weekly", "monthly", "history">>

\* if (response.ok) { ... }
submitOk(p) ==
    /\ showToast(<<"Checklist saved successfully!">>, "success")
    /\ clearForm
    /\ Issue(SubmitReloads, "submit", p)

\* variant: the form is reset on a refused entry as well
submitErrorClears(p) ==
    /\ showToast(<<"Error: ", p.resp.detail>>, "error")
    /\ clearForm
    /\ UNCHANGED <<reqs, issued>>

\* else { const error = await response.json(); showToast(...) }
submitError(p) ==
    /\ showToast(<<"Error: ", p.resp.detail>>, "error")
    /\ UNCHANGED <<checked, reqs, issued>>

\* variant: the read views are reloaded after a failed request as well
submitCatchReloads ==
    /\ showToast(<<"Network error. Please check if server is running.">>, "error")
    /\ Issue(<<"today", "stats">>, "submit", NoMsg)
    /\ UNCHANGED checked

\* catch (error): fetch rejected, or the error body was no JSON
submitCatch ==
    /\ showToast(<<"Network error. Please check if server is running.">>, "error")
    /\ UNCHANGED <<checked, reqs, issued>>

\* the submit handler after its await fetch
PostResponse(p) ==
    /\ p.resp.status # "none"
    /\ posts' = posts \ {p}
    /\ IF p.resp.status = "ok"
       THEN submitOk(p)
       ELSE IF p.resp.status = "http" /\ p.resp.body = "json"
            THEN submitError(p)
            ELSE submitCatch
    /\ lastEvent' = Event("post", "", "", p)
    /\ UNCHANGED <<tabVars, dateVal, dateMax, region, envVars, pageVars, srvVars>>

(* --------------------------- load and timers --------------------------- *)
\* variant: the loads are awaited one after another, only the first is started
InitialLoadsAwaited == <<"stats">>

\* the loads called by the DOMContentLoaded handler
InitialLoads == <<"stats", "today", "weekly", "monthly", "history">>

\* Math.floor((now - startDate) / (24 * 60 * 60 * 1000)), startDate being
\* January 1st of the year of now
DaysSinceNewYear(date) == HoursBetween(date, NewDate(date.y, 0, 1)) \div DayLength

\* Math.ceil(x / y) of integers, y > 0
Ceil(x, y) == -((-x) \div y)

\* variant: Math.floor instead of Math.ceil
weekNumberFloor(date) ==
    (DaysSinceNewYear(date) + getDay(NewDate(date.y, 0, 1)) + 1) \div WeekLength

weekNumber(date) ==
    Ceil(DaysSinceNewYear(date) + getDay(NewDate(date.y, 0, 1)) + 1, WeekLength)

\* toLocaleDateString('en-US', {weekday: 'long', year: 'numeric', month: 'long',
\* day: 'numeric'})
LongDate(date) ==
    DayNames[getDay(date) + 1] \o ", " \o MonthNames[date.m + 1] \o " "
      \o ToString(date.d) \o ", " \o ToString(date.y)

updateDateInfo ==
    dateInfo' = [date |-> LongDate(now), week |-> weekNumber(now),
                 month |-> MonthNames[now.m + 1]]

DOMContentLoaded ==
    /\ ~loaded
    /\ dateVal' = formatDate(now)
    /\ dateMax' = formatDate(now)
    /\ startDate' = formatDate(setDate(now, now.d - WeekBack))
    /\ endDate' = formatDate(now)
    /\ updateDateInfo
    /\ IssueAt(InitialLoads, "load", NoMsg,
               formatDate(setDate(now, now.d - WeekBack)), formatDate(now))
    /\ listeners' = TRUE
    /\ loaded' = TRUE
    /\ lastEvent' = Event("load", "", "", NoMsg)
    /\ UNCHANGED <<tabVars, checked, toastVars, region, posts, tickIn, clicks, now,
                   srvVars>>

\* variant: the timer refreshes the statistics only
TimerLoadsStats == <<"stats">>

\* variant: the timer refreshes the weekly reports as well
TimerLoadsWeekly == <<"today", "stats", "weekly">>

\* the loads called by the setInterval callback
TimerLoads == <<"today", "stats">>

\* the callback of setInterval(..., 30000); the interval stays armed
Tick ==
    /\ tickIn = 0
    /\ \A k \in Reads : Cardinality(TimerIds(k)) < MaxTicks
    /\ tickIn' = TimerInterval
    /\ Issue(TimerLoads, "timer", NoMsg)
    /\ lastEvent' = Event("tick", "", "", NoMsg)
    /\ UNCHANGED <<tabVars, formVars, toastVars, region, posts, loaded, listeners,
                   clicks, pageVars, srvVars>>

HistoryClick ==
    /\ listeners
    /\ clicks < MaxHistClicks
    /\ clicks' = clicks + 1
    /\ Issue(<<"history">>, "click", NoMsg)
    /\ lastEvent' = Event("click", "", "", NoMsg)
    /\ UNCHANGED <<tabVars, formVars, toastVars, region, posts, loaded, listeners,
                   tickIn, pageVars, srvVars>>

\* the user picks or empties the start date or the end date of the history
UserSetRange(start, end) ==
    /\ <<start, end>> # <<startDate, endDate>>
    /\ start = startDate \/ end = endDate
    /\ startDate' = start
    /\ endDate' = end
    /\ lastEvent' = Idle
    /\ UNCHANGED <<tabVars, formVars, toastVars, region, reqs, posts, issued, envVars,
                   now, dateInfo, srvVars>>

(* ------------------------------- Next ---------------------------------- *)
Next ==
    \/ DOMContentLoaded
    \/ Tick
    \/ HistoryClick
    \/ ToastHide
    \/ \E d \in 1..TimerInterval : Advance(d)
    \/ \E start, end \in Dates \cup {NoDate} : UserSetRange(start, end)
    \/ Submit
    \/ \E tab \in Tabs : TabClick(tab)
    \/ \E t \in UserTasks : UserToggle(t)
    \/ \E d \in Dates : UserSetDate(d)
    \/ \E p \in posts : \E out \in PostOutcomes(p) : PostServe(p, out)
    \/ \E p \in posts : PostResponse(p)
    \/ \E r \in reqs : \E out \in TodayOutcomes : TodayServe(r, out)
    \/ \E r \in reqs : \E out \in ReadOutcomes(r.kind) \cup ListOutcomes(r.kind) \cup {r.resp} :
          ReadResponse(r, out)

Spec == Init /\ [][Next]_vars

\* the tab bar and the form inputs, no response arriving
UiNext ==
    \/ DOMContentLoaded
    \/ HistoryClick
    \/ \E tab \in Tabs : TabClick(tab)
    \/ \E t \in UserTasks : UserToggle(t)
    \/ \E d \in Dates : UserSetDate(d)

SpecUi == Init /\ [][UiNext]_vars

\* the form, the POST and the today status; the other responses never arrive
FormNext ==
    \/ DOMContentLoaded
    \/ (issued["post"] = 0 /\ Submit)
    \/ \E t \in UserTasks : UserToggle(t)
    \/ \E d \in Dates : UserSetDate(d)
    \/ \E p \in posts : \E out \in PostOutcomes(p) : PostServe(p, out)
    \/ \E p \in posts : PostResponse(p)
    \/ \E r \in reqs : \E out \in TodayOutcomes : TodayServe(r, out)
    \/ \E r \in reqs : r.kind = "today" /\ ReadResponse(r, r.resp)

SpecForm == Init /\ [][FormNext]_vars

\* the five read operations, no form activity
ReadNext ==
    \/ DOMContentLoaded
    \/ HistoryClick
    \/ \E r \in reqs : \E out \in TodayOutcomes : TodayServe(r, out)
    \/ \E r \in reqs : \E out \in ReadOutcomes(r.kind) \cup {r.resp} : ReadResponse(r, out)

SpecReads == Init /\ [][ReadNext]_vars

\* a request of the timer is answered with an error status
TimerRefused ==
    \/ \E r \in reqs : r.origin = "timer" /\ TodayServe(r, [NoResp EXCEPT !.status = "http"])
    \/ \E r \in reqs : /\ r.origin = "timer"
                        /\ ReadResponse(r, IF r.kind = "today"
                                           THEN r.resp
                                           ELSE [NoResp EXCEPT !.status = "http"])

\* the history: its two date inputs, its button, its responses
HistoryNext ==
    \/ DOMContentLoaded
    \/ HistoryClick
    \/ \E start, end \in Dates \cup {NoDate} : UserSetRange(start, end)
    \/ \E r \in reqs : \E out \in ReadOutcomes(r.kind) \cup ListOutcomes(r.kind) :
          r.kind = "history" /\ ReadResponse(r, out)

SpecHistory == Init /\ [][HistoryNext]_vars

\* the weekly and the monthly reports
ReportNext ==
    \/ DOMContentLoaded
    \/ \E r \in reqs : \E out \in ReadOutcomes(r.kind) \cup ListOutcomes(r.kind) :
          r.kind \in {"weekly", "monthly"} /\ ReadResponse(r, out)

SpecReports == Init /\ [][ReportNext]_vars

\* the load at any moment of the years considered
LoadNext == DOMContentLoaded

SpecDates == InitAnyDate /\ [][LoadNext]_vars

\* a today request is served or its response handled, a stats request of
\* the timer is answered with an error status
Answered ==
    \/ \E r \in reqs : \E out \in TodayOutcomes : out.status # "fail" /\ TodayServe(r, out)
    \/ \E r \in reqs : r.kind = "today" /\ ReadResponse(r, r.resp)
    \/ \E r \in reqs : /\ r.kind = "stats"
                        /\ r.origin = "timer"
                        /\ ReadResponse(r, [NoResp EXCEPT !.status = "http"])

\* the today status kept fresh: the form, one submit, the today reads of
\* load, submit and timer
FreshNext ==
    \/ DOMContentLoaded
    \/ UserToggle(TaskOrder[1])
    \/ (issued["post"] = 0 /\ Submit)
    \/ \E p \in posts : \E out \in PostOutcomes(p) :
          out.status \in {"ok", "fail"} /\ PostServe(p, out)
    \/ \E p \in posts : PostResponse(p)
    \/ Answered
    \/ Tick
    \/ Advance(NextDue)
    \/ ToastHide

\* timer callbacks run when due, time does not stop, and the requests are
\* answered
SpecFresh ==
    /\ Init
    /\ [][FreshNext]_vars
    /\ WF_vars(Tick)
    /\ WF_vars(Advance(NextDue))
    /\ WF_vars(ToastHide)
    /\ WF_vars(Answered)

\* a request of the timer is served or its response handled
TimerAnswered ==
    \/ \E r \in reqs : \E out \in TodayOutcomes : r.origin = "timer" /\ TodayServe(r, out)
    \/ \E r \in reqs : \E out \in ReadOutcomes(r.kind) \cup {r.resp} :
          r.origin = "timer" /\ ReadResponse(r, out)

\* the reads of the load answered
LoadAnswered ==
    \/ \E r \in reqs : \E out \in TodayOutcomes : r.origin = "load" /\ TodayServe(r, out)
    \/ \E r \in reqs : \E out \in ReadOutcomes(r.kind) \cup {r.resp} :
          /\ r.origin = "load"
          /\ r.kind \in {"today", "stats"}
          /\ ReadResponse(r, out)

\* time passes in multiples of step seconds
TimePasses(step) == \E d \in 1..NextDue : d % step = 0 /\ Advance(d)

\* the auto-refresh: the interval timer and the two reads it repeats
TimerNext ==
    \/ DOMContentLoaded
    \/ Tick
    \/ TimePasses(10)
    \/ TimerAnswered
    \/ LoadAnswered

\* the callback runs once it is due, time does not stop, and the requests
\* of the timer do not stay unanswered for ever
SpecTimer ==
    /\ Init
    /\ [][TimerNext]_vars
    /\ WF_vars(Tick)
    /\ WF_vars(TimePasses(10))
    /\ WF_vars(TimerAnswered)

\* the notifications of the submits, second by second
ToastNext ==
    \/ DOMContentLoaded
    \/ Submit
    \/ \E p \in posts : \E out \in PostOutcomes(p) : PostServe(p, out)
    \/ \E p \in posts : PostResponse(p)
    \/ ToastHide
    \/ Advance(1)
    \/ Tick
    \/ TimerRefused

\* a timer callback runs once it is due, and time does not stop
SpecToast ==
    /\ Init
    /\ [][ToastNext]_vars
    /\ WF_vars(ToastHide)
    /\ WF_vars(Advance(1))
    /\ WF_vars(Tick)
    /\ WF_vars(TimerRefused)

(* ======================================================================= *)
(*                               Claims                                    *)
(* ======================================================================= *)

\* C1: after any sequence of switchTab calls exactly one tab button and exactly
\* one content panel carry "active", and they are the ones of currentTab.
C1_OneActiveTab ==
    /\ btnActive = {currentTab}
    /\ panelActive = {PanelId(currentTab)}
    /\ Cardinality(btnActive) = 1
    /\ Cardinality(panelActive) = 1

\* a switch from another tab to the history tab has happened
C1_Witness ==
    /\ lastEvent.op = "switchTab"
    /\ lastEvent.tab = "history"
    /\ lastEvent.prev = "monthly"
    /\ currentTab = "history"

\* C2: switchTab(t) with t = currentTab changes neither currentTab nor the
\* "active" class of any tab button or content panel.
C2_SameTabNoop ==
    [][(lastEvent'.op = "switchTab" /\ lastEvent'.tab = currentTab)
         => UNCHANGED <<currentTab, btnActive, panelActive>>]_vars

\* switchTab was called with the tab that was already current
C2_Witness ==
    /\ lastEvent.op = "switchTab"
    /\ lastEvent.prev = lastEvent.tab
    /\ lastEvent.tab = "monthly"

SuccessToast == [show |-> TRUE, msg |-> <<"Checklist saved successfully!">>,
                 icon |-> "toast-icon fas fa-check-circle", bg |-> "#48bb78"]
ErrorToast(m) == [show |-> TRUE, msg |-> m,
                  icon |-> "toast-icon fas fa-exclamation-circle", bg |-> "#f56565"]
NetworkToast == ErrorToast(<<"Network error. Please check if server is running.">>)

\* the POST whose response the step handles
Handled(p) == p \in posts /\ p \notin posts' /\ p.resp.status # "none"

\* C3: on a 2xx response to the POST the handler shows the success
\* notification, unchecks all seven checkboxes and issues each of the five
\* read operations exactly once; none of the five has been answered when the
\* checkboxes are reset.
C3_SubmitOk ==
    [][\A p \in posts : (Handled(p) /\ p.resp.status = "ok") =>
          /\ toast' = SuccessToast
          /\ checked' = {}
          /\ reqs \subseteq reqs'
          /\ \A k \in Reads : Cardinality({r \in reqs' \ reqs : r.kind = k}) = 1
          /\ \A r \in reqs' \ reqs : r.resp.status = "none" /\ r.origin = "submit"]_vars

\* an accepted entry with checked boxes has been handled
C3_Witness ==
    /\ lastEvent.op = "post"
    /\ lastEvent.msg.resp.status = "ok"
    /\ lastEvent.msg.form = {"gym", "aws"}
    /\ checked = {}
    /\ toast.show

\* C4 as stated: on a non-2xx response with a detail field the error
\* notification carries that detail, no read operation is issued, and the
\* checkboxes hold the values they had when the submit was issued.
C4_AsStated ==
    [][\A p \in posts : (Handled(p) /\ p.resp.status = "http" /\ p.resp.body = "json") =>
          /\ toast' = ErrorToast(<<"Error: ", p.resp.detail>>)
          /\ reqs' = reqs
          /\ checked' = p.form]_vars

\* C4 amended: ... and the handler leaves the checkboxes as they were just
\* before the response was handled.
C4_SubmitRefused ==
    [][\A p \in posts : (Handled(p) /\ p.resp.status = "http" /\ p.resp.body = "json") =>
          /\ toast' = ErrorToast(<<"Error: ", p.resp.detail>>)
          /\ reqs' = reqs
          /\ checked' = checked]_vars

\* a refused entry has been handled while the checkboxes differ from the
\* submitted ones
C4_Witness ==
    /\ lastEvent.op = "post"
    /\ lastEvent.msg.resp.status = "http"
    /\ lastEvent.msg.resp.detail = "Entry already exists"
    /\ checked # lastEvent.msg.form
    /\ checked # {}

\* C5: when the fetch of the POST rejects, the handler shows the fixed
\* network-error notification, issues no read operation and leaves the
\* checkboxes, the date field, currentTab and every read-view region unchanged.
C5_SubmitTransportFailure ==
    [][\A p \in posts : (Handled(p) /\ p.resp.status = "fail") =>
          /\ toast' = NetworkToast
          /\ reqs' = reqs
          /\ UNCHANGED <<checked, dateVal, dateMax, currentTab, btnActive,
                         panelActive, region>>]_vars

\* a rejected fetch has been handled with boxes checked
C5_Witness ==
    /\ lastEvent.op = "post"
    /\ lastEvent.msg.resp.status = "fail"
    /\ checked # {}
    /\ toast = NetworkToast

\* the 2xx /api/today response that the last step handled
TodayHandled ==
    /\ lastEvent.op = "read"
    /\ lastEvent.msg.kind = "today"
    /\ lastEvent.msg.resp.status = "ok"

\* C6: after a 2xx /api/today response is handled, all seven checkboxes are
\* unchecked if exists is false, whatever the seven booleans of the payload,
\* and equal the seven booleans if exists is true.
C6_TodayCheckboxes ==
    TodayHandled =>
        \A t \in Tasks :
            (t \in checked) <=> (lastEvent.msg.resp.exists /\ t \in lastEvent.msg.resp.flags)

\* a payload with exists false and a true flag has been handled
C6_Witness ==
    /\ TodayHandled
    /\ ~lastEvent.msg.resp.exists
    /\ lastEvent.msg.resp.flags # {}
    /\ checked = {}

\* C7 as stated: for any date of the date field, once the today-status reload
\* of an accepted submit has completed, the checkboxes equal the submitted flags.
C7_AsStated ==
    (TodayHandled /\ lastEvent.msg.origin = "submit") => checked = lastEvent.msg.form

\* C7 amended: for an entry submitted for the current date, when the reload of
\* the submit is answered 2xx from the entry this submit wrote, the
\* checkboxes equal the submitted flags right after the answer is handled.
C7_SubmitThenReload ==
    (/\ TodayHandled
     /\ lastEvent.msg.origin = "submit"
     /\ lastEvent.msg.date = formatDate(now)
     /\ lastEvent.msg.resp.ver = lastEvent.msg.cause) => checked = lastEvent.msg.form

\* the reload of a submit for the current date with checked boxes was handled
C7_Witness ==
    /\ TodayHandled
    /\ lastEvent.msg.origin = "submit"
    /\ lastEvent.msg.date = formatDate(now)
    /\ lastEvent.msg.resp.ver = lastEvent.msg.cause
    /\ lastEvent.msg.form = {"gym", "aws"}
    /\ checked = {"gym", "aws"}

\* the GET whose response the step handles
ReadHandled(r) ==
    /\ r \in reqs
    /\ r \notin reqs'
    /\ lastEvent'.op = "read"
    /\ lastEvent'.msg.kind = r.kind
    /\ lastEvent'.msg.id = r.id

\* what a 2xx response of each read operation puts in its region
OkHtml(k, resp) ==
    CASE k = "stats" -> "stat-items"
      [] k = "today" -> "status-items"
      [] k = "history" -> IF resp.body = "empty" THEN "<p>No history found.</p>"
                                                 ELSE "history-items"
      [] k = "weekly" -> IF resp.body = "empty" THEN "<p>No weekly reports yet.</p>"
                                                ELSE "report-items"
      [] k = "monthly" -> IF resp.body = "empty" THEN "<p>No monthly reports yet.</p>"
                                                 ELSE "report-items"

\* C8: on load the five read operations are all issued in the one handler run
\* and the listeners are installed; whichever of them fail and in whatever
\* order they complete, handling one response leaves the other requests in
\* flight and the other regions alone, and a 2xx response renders its own
\* result.
C8_IndependentReads ==
    [][/\ (~loaded /\ loaded') =>
             /\ listeners'
             /\ \A k \in Reads :
                   Cardinality({r \in reqs' : r.kind = k /\ r.origin = "load"
                                               /\ r.resp.status = "none"}) = 1
       /\ \A r \in reqs : ReadHandled(r) =>
             /\ reqs' = reqs \ {r}
             /\ listeners' = listeners
             /\ \A k \in Reads \ {r.kind} : region'[k] = region[k]
             /\ lastEvent'.msg.resp.status = "ok" =>
                   region'[r.kind].html = OkHtml(r.kind, lastEvent'.msg.resp)]_vars

\* all reads of the load have completed: two failed, the others are rendered
C8_Witness ==
    /\ loaded
    /\ listeners
    /\ reqs = {}
    /\ clicks = 0
    /\ region["stats"].html = "<p>Loading...</p>"
    /\ region["weekly"].html = "initial"
    /\ region["today"].html = "status-items"
    /\ region["monthly"].html = "report-items"
    /\ region["history"].html = "<p>No history found.</p>"

\* the error and placeholder states of the regions
FailHtml == {"<p>Loading...</p>", "<p>Error loading history</p>"}

\* C9: a failed request of a read operation, non-2xx or transport failure,
\* renders an error or placeholder state in the region of that operation, and
\* handling the failure issues no new request.
C9_AsStated ==
    [][\A r \in reqs :
          (ReadHandled(r) /\ lastEvent'.msg.resp.status \in {"http", "fail"}) =>
              /\ region'[r.kind].html \in FailHtml
              /\ reqs' = reqs \ {r}]_vars

\* C10: handling the response of a read operation never changes the toast,
\* and the toast becomes visible only when the response of a POST is handled.
C10_ReadsNeverToast ==
    [][/\ (\E r \in reqs : ReadHandled(r)) => UNCHANGED <<toast, hideTimers>>
       /\ (~toast.show /\ toast'.show) => \E p \in posts : Handled(p)]_vars

\* a failed history request has been handled and the toast is hidden
C10_Witness ==
    /\ lastEvent.op = "read"
    /\ lastEvent.msg.kind = "history"
    /\ lastEvent.msg.resp.status = "fail"
    /\ region["history"].html = "<p>Error loading history</p>"
    /\ ~toast.show

\* the toast a call showToast(message, type) leaves
Shown(message, type) ==
    [show |-> TRUE, msg |-> message,
     icon |-> CASE type = "success" -> "toast-icon fas fa-check-circle"
                [] type = "error" -> "toast-icon fas fa-exclamation-circle",
     bg |-> CASE type = "success" -> "#48bb78" [] type = "error" -> "#f56565"]

\* C11: every showToast call overwrites message, icon and colour, makes the
\* toast visible and schedules its own hide 3 seconds later, leaving the
\* pending hides as they are; a pending hide only gets older with the time
\* that passes, runs when its 3 seconds are over and then hides the toast,
\* whatever was shown since; and the toast ends up hidden for good.
C11_ToastHides ==
    /\ [][/\ \A p \in posts : Handled(p) =>
                /\ toast' = CASE p.resp.status = "ok" ->
                                   Shown(<<"Checklist saved successfully!">>, "success")
                              [] p.resp.status = "http" /\ p.resp.body = "json" ->
                                   Shown(<<"Error: ", p.resp.detail>>, "error")
                              [] OTHER ->
                                   Shown(<<"Network error. Please check if server is running.">>,
                                         "error")
                /\ hideTimers' = hideTimers \o <<3>>
          /\ (\A p \in posts : ~Handled(p)) =>
                \/ hideTimers' = hideTimers
                \/ /\ hideTimers # <<>>
                   /\ hideTimers[1] = 0
                   /\ hideTimers' = SubSeq(hideTimers, 2, Len(hideTimers))
                   /\ ~toast'.show
                \/ \E d \in 1..3 :
                      /\ Len(hideTimers') = Len(hideTimers)
                      /\ \A i \in 1..Len(hideTimers) :
                            hideTimers[i] >= d /\ hideTimers'[i] = hideTimers[i] - d
                      /\ toast' = toast
          /\ (hideTimers # <<>> /\ hideTimers[1] = 0) => ENABLED ToastHide]_vars
    /\ <>[](~toast.show)

\* the hide of an earlier call has just hidden the notification of a refused
\* entry that was shown less than 3 seconds ago and whose own hide is pending
C11_Witness ==
    /\ lastEvent.op = "hide"
    /\ ~toast.show
    /\ toast.msg = <<"Error: ", "Entry already exists">>
    /\ Len(hideTimers) = 1
    /\ hideTimers[1] \in 1..2

C13_HistoryQuery ==
    [][\A r \in reqs' \ reqs : (r.kind = "history" /\ r.resp.status = "none") =>
          /\ Len(r.query) \in {0, 2}
          /\ Len(r.query) = 2 <=> (startDate' # "" /\ endDate' # "")
          /\ Len(r.query) = 2 =>
                /\ r.query[1] = [name |-> "start_date", value |-> startDate']
                /\ r.query[2] = [name |-> "end_date", value |-> endDate']]_vars

\* the button was clicked with an end date and an emptied start date
C13_Witness ==
    /\ lastEvent.op = "click"
    /\ startDate = ""
    /\ endDate # ""
    /\ \E r \in reqs : r.kind = "history" /\ r.origin = "click" /\ r.query = <<>>
    /\ \E r \in reqs : r.kind = "history" /\ r.origin = "load" /\ Len(r.query) = 2

\* the 2xx history response that the last step handled
HistoryHandled ==
    /\ lastEvent.op = "read"
    /\ lastEvent.msg.kind = "history"
    /\ lastEvent.msg.resp.status = "ok"

\* the place of a badge text in the fixed order of the tasks
BadgeOrder == [GYM |-> 1, DSA |-> 2, ML |-> 3, Django |-> 4, SQL |-> 5, Project |-> 6,
               AWS |-> 7]
BadgeOf == [gym |-> "GYM", dsa |-> "DSA", ml |-> "ML", django |-> "Django",
            sql |-> "SQL", project_work |-> "Project", aws |-> "AWS"]

\* C14: after a 2xx history response is handled the history list holds the
\* one empty-state message and no row when the array is empty; otherwise one
\* row per entry in the order of the response, and a row holds one completed
\* badge per true flag in the order gym, dsa, ml, django, sql, project_work,
\* aws, or the single 'no tasks' badge when no flag is true.
C14_HistoryRows ==
    HistoryHandled =>
        IF lastEvent.msg.resp.items = <<>>
        THEN /\ region["history"].html = "<p>No history found.</p>"
             /\ region["history"].items = <<>>
        ELSE /\ region["history"].html # "<p>No history found.</p>"
             /\ Len(region["history"].items) = Len(lastEvent.msg.resp.items)
             /\ \A i \in 1..Len(lastEvent.msg.resp.items) :
                   /\ region["history"].items[i].date[2] = lastEvent.msg.resp.items[i].date
                   /\ IF lastEvent.msg.resp.items[i].flags = {}
                      THEN region["history"].items[i].tasks =
                               <<[class |-> "task-badge", text |-> "No tasks completed"]>>
                      ELSE /\ {b.text : b \in {region["history"].items[i].tasks[j] :
                                        j \in 1..Len(region["history"].items[i].tasks)}}
                                 = {BadgeOf[t] : t \in lastEvent.msg.resp.items[i].flags}
                           /\ \A j \in 1..Len(region["history"].items[i].tasks) :
                                 /\ region["history"].items[i].tasks[j].class
                                        = "task-badge completed"
                                 /\ j > 1 =>
                                       BadgeOrder[region["history"].items[i].tasks[j - 1].text]
                                         < BadgeOrder[region["history"].items[i].tasks[j].text]

\* a response of two entries was rendered: three badges, then 'no tasks'
C14_Witness ==
    /\ HistoryHandled
    /\ Len(lastEvent.msg.resp.items) = 2
    /\ lastEvent.msg.resp.items[1].flags = {"aws", "sql", "ml"}
    /\ lastEvent.msg.resp.items[2].flags = {}
    /\ Len(region["history"].items) = 2
    /\ Len(region["history"].items[1].tasks) = 3
    /\ region["history"].items[1].tasks[1].text = "ML"
    /\ region["history"].items[1].tasks[3].text = "AWS"
    /\ region["history"].items[2].tasks[1].text = "No tasks completed"

\* the 2xx response with reports that the last step handled
ReportsHandled ==
    /\ lastEvent.op = "read"
    /\ lastEvent.msg.kind \in {"weekly", "monthly"}
    /\ lastEvent.msg.resp.status = "ok"
    /\ lastEvent.msg.resp.items # <<>>

\* C15: in every rendered weekly and monthly report, the width of the bar of
\* each of the seven percentages p is min(p, 100), so at most 100, and the
\* label of the bar shows p itself with one decimal (percentages in tenths).
C15_BarsClamped ==
    ReportsHandled =>
        /\ Len(region[lastEvent.msg.kind].items) = Len(lastEvent.msg.resp.items)
        /\ \A i \in 1..Len(lastEvent.msg.resp.items) : \A j \in 1..7 :
              /\ region[lastEvent.msg.kind].items[i].bars[j].width <= 100 * 10
              /\ region[lastEvent.msg.kind].items[i].bars[j].width
                    <= lastEvent.msg.resp.items[i].pct[TaskOrder[j]]
              /\ region[lastEvent.msg.kind].items[i].bars[j].width
                    \in {100 * 10, lastEvent.msg.resp.items[i].pct[TaskOrder[j]]}
              /\ region[lastEvent.msg.kind].items[i].bars[j].label
                    = BadgeOf[TaskOrder[j]] \o ": "
                        \o ToString(lastEvent.msg.resp.items[i].pct[TaskOrder[j]] \div 10)
                        \o "."
                        \o ToString(lastEvent.msg.resp.items[i].pct[TaskOrder[j]] % 10)
                        \o "%"

\* a monthly report with 150 for gym and 33.3 for aws was rendered
C15_Witness ==
    /\ ReportsHandled
    /\ lastEvent.msg.kind = "monthly"
    /\ lastEvent.msg.resp.items[1].pct["gym"] = 1500
    /\ lastEvent.msg.resp.items[1].pct["aws"] = 333
    /\ region["monthly"].items[1].bars[1] = [label |-> "GYM: 150.0%", width |-> 1000]
    /\ region["monthly"].items[1].bars[7] = [label |-> "AWS: 33.3%", width |-> 333]

\* the days of a year before its month m (1 = January), leap day apart
DaysBefore == <<0, 31, 59, 90, 120, 151, 181, 212, 243, 273, 304, 334>>

\* the whole days elapsed at the current moment since the start of January 1st
DayOfYear ==
    (24 * (DaysBefore[now.m + 1] + now.d - 1
             + (IF now.m > 1 /\ (now.y % 4 = 0 /\ (now.y % 100 # 0 \/ now.y % 400 = 0))
                THEN 1 ELSE 0))
       + now.hour - now.dst) \div 24

\* the weekday of January 1st of the current year, 0 = Sunday
Jan1Weekday ==
    (1 + 5 * ((now.y - 1) % 4) + 4 * ((now.y - 1) % 100) + 6 * ((now.y - 1) % 400)) % 7

\* C16: the week number displayed after the load is
\* ceil((dayOfYear + Jan1Weekday + 1) / 7): the least w with
\* dayOfYear + Jan1Weekday + 1 <= 7 w; dayOfYear is 0 on January 1st, and the
\* week number lies between 1 and 54.
C16_WeekNumber ==
    loaded =>
        /\ DayOfYear + Jan1Weekday + 1 <= 7 * dateInfo.week
        /\ DayOfYear + Jan1Weekday + 1 > 7 * (dateInfo.week - 1)
        /\ (now.m = 0 /\ now.d = 1) => DayOfYear = 0
        /\ dateInfo.week >= 1
        /\ dateInfo.week <= 54

\* the page was loaded on the last day of a leap year that began on a
\* Saturday: week 54
C16_Witness ==
    /\ loaded
    /\ now.m = 11
    /\ now.d = 31
    /\ Jan1Weekday = 6
    /\ DayOfYear = 365
    /\ dateInfo.week = 54

\* the Julian day number of day d of month m (1 = January) of year y
JulianDay(y, m, d) ==
    d + ((153 * (m + 12 * ((14 - m) \div 12) - 3) + 2) \div 5)
      + 365 * (y + 4800 - ((14 - m) \div 12))
      + ((y + 4800 - ((14 - m) \div 12)) \div 4)
      - ((y + 4800 - ((14 - m) \div 12)) \div 100)
      + ((y + 4800 - ((14 - m) \div 12)) \div 400) - 32045

\* YYYY-MM-DD of the calendar date with Julian day number j
IsoOfJulianDay(j) ==
    LET f == j + 1401 + ((((4 * j + 274277) \div 146097) * 3) \div 4) - 38
        e == 4 * f + 3
        h == 5 * ((e % 1461) \div 4) + 2
        d == ((h % 153) \div 5) + 1
        m == (((h \div 153) + 2) % 12) + 1
        y == (e \div 1461) - 4716 + ((14 - m) \div 12)
    IN  ToString(y) \o "-" \o ToString(m \div 10) \o ToString(m % 10)
          \o "-" \o ToString(d \div 10) \o ToString(d % 10)

\* C17: right after the load the date field and its max hold the current
\* date, the end date of the history holds the current date, and the start
\* date of the history holds the calendar date seven days earlier.
C17_InitialDates ==
    loaded =>
        /\ dateVal = IsoOfJulianDay(JulianDay(now.y, now.m + 1, now.d))
        /\ dateMax = dateVal
        /\ endDate = dateVal
        /\ startDate = IsoOfJulianDay(JulianDay(now.y, now.m + 1, now.d) - 7)

\* the page was loaded on January 3rd: the start date lies in the year before
C17_Witness ==
    /\ lastEvent.op = "load"
    /\ now.y = 2000
    /\ dateVal = "2000-01-03"
    /\ dateMax = "2000-01-03"
    /\ endDate = "2000-01-03"
    /\ startDate = "1999-12-27"

\* C18 as stated: handling the response of a read operation changes no region
\* but the one of that operation, and changes neither currentTab, the toast,
\* the date inputs nor the form checkboxes.
C18_AsStated ==
    [][\A r \in reqs : ReadHandled(r) =>
          /\ \A k \in Reads \ {r.kind} : region'[k] = region[k]
          /\ UNCHANGED <<currentTab, btnActive, panelActive, toast, hideTimers,
                         dateVal, dateMax, startDate, endDate>>
          /\ checked' = checked]_vars

\* C18 amended: ... and the form checkboxes are changed by loadTodayStatus
\* only, which on a 2xx response sets them to the flags of the payload, or
\* unchecks them all when exists is false.
C18_ReadFrame ==
    [][\A r \in reqs : ReadHandled(r) =>
          /\ \A k \in Reads \ {r.kind} : region'[k] = region[k]
          /\ UNCHANGED <<currentTab, btnActive, panelActive, toast, hideTimers,
                         dateVal, dateMax, startDate, endDate>>
          /\ (r.kind # "today" \/ lastEvent'.msg.resp.status # "ok") => checked' = checked
          /\ (r.kind = "today" /\ lastEvent'.msg.resp.status = "ok") =>
                checked' = IF lastEvent'.msg.resp.exists
                           THEN lastEvent'.msg.resp.flags
                           ELSE {}]_vars

\* a today response has changed the checkboxes and left the regions of the
\* other reads as they were
C18_Witness ==
    /\ TodayHandled
    /\ lastEvent.before = {}
    /\ checked = {"project_work", "aws"}
    /\ region["today"].html = "status-items"
    /\ \A k \in Reads \ {"today"} : region[k].html = "initial"

\* the today region and the checkboxes show the entry the backend holds
Reflects ==
    /\ region["today"].html = "status-items"
    /\ region["today"].flags = srvToday.flags
    /\ checked = IF srvToday.exists THEN srvToday.flags ELSE {}

\* C19: a 2xx today response is applied when it is handled, whatever the
\* region shows and whenever its request was issued, so that a response
\* older than the one shown puts stale data on the page; and if from some
\* moment on the user toggles no checkbox and the today responses handled
\* are 2xx, then from some moment on the today region and the checkboxes
\* show the entry of the backend (which a run changes finitely often).
C19_StaleThenFresh ==
    /\ [][\A r \in reqs :
             (ReadHandled(r) /\ r.kind = "today" /\ r.resp.status = "ok") =>
                 /\ region'["today"].html = "status-items"
                 /\ region'["today"].flags = r.resp.flags]_vars
    /\ (/\ <>[](lastEvent.op # "toggle")
        /\ <>[](lastEvent.op = "read" /\ lastEvent.msg.kind = "today"
                   => lastEvent.msg.resp.status = "ok"))
          => <>[]Reflects

\* the today response of the load, taken before the entry was written, has
\* been applied over the newer one that the page showed
C19_Witness ==
    /\ TodayHandled
    /\ lastEvent.msg.origin = "load"
    /\ lastEvent.msg.resp.ver = 0
    /\ lastEvent.shown = 1
    /\ srvVer = 1
    /\ posts = {}
    /\ \A r \in reqs : r.kind = "today" => r.origin = "timer"
    /\ region["today"].flags # srvToday.flags
    /\ ~Reflects

\* C20: whatever the user toggled since the last submit, handling a 2xx today
\* response of the load, of the timer or of a submit leaves the checkboxes
\* equal to the flags of the payload when exists is true and all unchecked
\* otherwise, and a served response can always be handled: no state of the
\* form holds it back.
C20_EditsDiscarded ==
    [][/\ \A r \in reqs :
             (ReadHandled(r) /\ r.kind = "today" /\ r.resp.status = "ok") =>
                 /\ r.origin \in {"load", "timer", "submit"}
                 /\ \A t \in Tasks : t \in checked' <=> (r.resp.exists /\ t \in r.resp.flags)
       /\ \A r \in reqs :
             (r.kind = "today" /\ r.resp.status # "none") => ENABLED ReadResponse(r, r.resp)]_vars

\* a response of the timer has unchecked a box the user had checked and not
\* submitted
C20_Witness ==
    /\ TodayHandled
    /\ lastEvent.msg.origin = "timer"
    /\ issued["post"] = 0
    /\ ~lastEvent.msg.resp.exists
    /\ lastEvent.before = {"gym"}
    /\ checked = {}

====
